---- MODULE Spec2Model ----
(***************************************************************************)
(* Model of the analytics engine of the government-analytics dashboard     *)
(* (src/analytics_engine.py, class GovernmentServiceAnalytics).            *)
(*                                                                         *)
(* Numbers.  The engine works on float64.  Here every number is an exact   *)
(* integer in a fixed unit:                                                *)
(*   - KPI rates and means are in tenths      (round(x, 1) in the code),   *)
(*   - group means are in hundredths          (DataFrame.round(2)),        *)
(*   - an efficiency score is a fraction [num, den] of integers.           *)
(* Rounding is round-half-to-even, as round() and numpy's round do on the  *)
(* values that occur here.  The few-ulp error of float64 arithmetic is not *)
(* modelled: a score is the exact value of the code's expression.          *)
(*                                                                         *)
(* Names.  Departments and districts are identified by the rank of their   *)
(* name in sorted order, which is the order groupby iterates in.           *)
(***************************************************************************)
EXTENDS Integers, Sequences, FiniteSets

VARIABLES
    complaints_df,        \* self.complaints_df
    employee_df,          \* self.employee_df
    sentiment_df,         \* self.sentiment_df
    department_df,        \* self.department_df
    is_data_loaded,       \* self.is_data_loaded
    filtered_complaints,  \* the caller's complaint subset (DashboardUI.run: complaints_df)
    filtered_sentiment,   \* the caller's sentiment subset (DashboardUI.run: sentiment_df)
    call,                 \* the last engine call: its name, inputs and return value
    dashboard             \* the run of DashboardUI.run: its position, the engine
                          \* methods it has called, the st.error messages shown

vars == <<complaints_df, employee_df, sentiment_df, department_df, is_data_loaded,
          filtered_complaints, filtered_sentiment, call, dashboard>>

engine == <<complaints_df, employee_df, sentiment_df, department_df, is_data_loaded>>

(***************************************************************************)
(* Bounds of the model.                                                    *)
(***************************************************************************)
\* rows of a one-department complaint subset handed to a calculator
MaxRows == 3
\* rows of a two-department complaint subset handed to a calculator
MaxDeptRows == 2
\* rows of the complaints file read by load_data
MaxComplaints == 1
\* rows of the sentiment file read by load_data
MaxPosts == 1
\* rows of a complaint subset handed to the pattern and insight calculators
MaxCategoryRows == 3
\* rows of a sentiment subset handed to analyze_sentiment_data
MaxLabelledPosts == 2

(***************************************************************************)
(* Values of the data model.                                               *)
(***************************************************************************)
\* python's None, and an absent table
None == [kind |-> "None"]
\* a local variable of the caller that is not assigned yet
Unset == [kind |-> "Unset"]

Statuses == {"Resolved", "Pending"}

\* the two departments and districts of the tables explored
Departments == {1, 2}
Districts == {1, 2}
\* a third department, for subsets with three groups
MoreDepartments == {1, 2, 3}
\* satisfaction_score is 1..5; the model explores the two ends of the scale
SatisfactionScores == {1, 5}
\* resolution_time_days of the tables explored
ResolutionDays == {0, 10, 20}
PositiveResolutionDays == {10, 20}
\* complaint_date / post_date, as day numbers
Dates == {1, 2}

\* the date columns load_data converts
ComplaintDateColumns == {"complaint_date", "resolution_date"}
SentimentDateColumns == {"post_date"}

\* a DataFrame: its rows in index order, and the date columns already
\* converted by pd.to_datetime
DataFrame(rows, parsed) == [kind |-> "DataFrame", rows |-> rows, parsed |-> parsed]

\* pd.DataFrame()
EmptyDataFrame == <<>>

\* python's {}: a mapping without keys
EmptyMapping == [k \in {} |-> 0]

IsNone(df) == df.kind = "None"

\* len(df)
Length(df) == Len(df.rows)

\* rows of a complaints table over the given column values; complaint_id is
\* the row's position in the file
ComplaintProfiles(depts, dists, statuses, sats, days, dates) ==
    [department : depts, district : dists, status : statuses,
     satisfaction_score : sats, resolution_time_days : days,
     complaint_date : dates, complaint_category : {1}]

WithIds(profiles) ==
    [i \in DOMAIN profiles |->
        [complaint_id |-> i,
         department |-> profiles[i].department,
         district |-> profiles[i].district,
         status |-> profiles[i].status,
         satisfaction_score |-> profiles[i].satisfaction_score,
         resolution_time_days |-> profiles[i].resolution_time_days,
         complaint_date |-> profiles[i].complaint_date,
         complaint_category |-> profiles[i].complaint_category]]

\* every table of at most n rows over the profiles
TablesOver(profiles, n) ==
    UNION {{WithIds(p) : p \in [1..k -> profiles]} : k \in 0..n}

(***************************************************************************)
(* Arithmetic helpers.                                                     *)
(***************************************************************************)
\* the integer nearest to num/den, ties to the even one (num >= 0, den > 0)
RoundHalfEven(num, den) ==
    LET q == num \div den
        r == num % den
    IN  IF 2 * r < den THEN q
        ELSE IF 2 * r > den THEN q + 1
        ELSE IF q % 2 = 0 THEN q ELSE q + 1

RECURSIVE SumColumn(_, _)
\* Series.sum() of column col
SumColumn(rows, col) ==
    IF rows = <<>> THEN 0 ELSE Head(rows)[col] + SumColumn(Tail(rows), col)

\* max of a non-empty set of integers
SetMax(S) == CHOOSE m \in S : \A x \in S : x <= m

\* min of a non-empty set of integers
SetMin(S) == CHOOSE m \in S : \A x \in S : m <= x

RECURSIVE SortedSeq(_)
\* the elements of a set of integers in ascending order
SortedSeq(S) ==
    IF S = {} THEN <<>>
    ELSE LET m == CHOOSE x \in S : \A y \in S : x <= y
         IN  <<m>> \o SortedSeq(S \ {m})

(***************************************************************************)
(* get_kpi_metrics                                                         *)
(***************************************************************************)
\* complaints_df[complaints_df['status'] == 'Resolved']
ResolvedRows(rows) == SelectSeq(rows, LAMBDA r : r.status = "Resolved")

\* mutant of resolution_rate: the share of the records that are not Resolved
resolution_rate_unresolved(rows) ==
    LET total_complaints == Len(rows)
        resolved_complaints == Len(ResolvedRows(rows))
    IN  IF total_complaints > 0
        THEN RoundHalfEven((total_complaints - resolved_complaints) * 1000,
                           total_complaints)
        ELSE 0

\* round((resolved_complaints / total_complaints) * 100, 1), in tenths
resolution_rate(rows) ==
    LET total_complaints == Len(rows)
        resolved_complaints == Len(ResolvedRows(rows))
    IN  IF total_complaints > 0
        THEN RoundHalfEven(resolved_complaints * 1000, total_complaints)
        ELSE 0

\* round(complaints_df['satisfaction_score'].mean(), 1), in tenths
kpi_avg_satisfaction(rows) ==
    RoundHalfEven(SumColumn(rows, "satisfaction_score") * 10, Len(rows))

\* mutant of kpi_avg_resolution_time: the mean over every record
kpi_avg_resolution_time_all(rows) ==
    IF Len(rows) > 0
    THEN RoundHalfEven(SumColumn(rows, "resolution_time_days") * 10, Len(rows))
    ELSE 0

\* round(resolved_df['resolution_time_days'].mean(), 1) if any row is
\* Resolved, else 0; in tenths
kpi_avg_resolution_time(rows) ==
    LET resolved_df == ResolvedRows(rows)
    IN  IF Len(resolved_df) > 0
        THEN RoundHalfEven(SumColumn(resolved_df, "resolution_time_days") * 10,
                           Len(resolved_df))
        ELSE 0

\* the dictionary get_kpi_metrics returns for the table df (None: no table)
kpi_metrics(df) ==
    IF IsNone(df) \/ Length(df) = 0
    THEN [total_complaints |-> 0, resolved_complaints |-> 0, resolution_rate |-> 0,
          avg_satisfaction |-> 0, avg_resolution_time |-> 0]
    ELSE [total_complaints |-> Len(df.rows),
          resolved_complaints |-> Len(ResolvedRows(df.rows)),
          resolution_rate |-> resolution_rate(df.rows),
          avg_satisfaction |-> kpi_avg_satisfaction(df.rows),
          avg_resolution_time |-> kpi_avg_resolution_time(df.rows)]

(***************************************************************************)
(* analyze_department_performance, analyze_regional_performance            *)
(***************************************************************************)
\* the group keys of groupby(col), in its iteration order (sorted)
GroupKeys(rows, col) == SortedSeq({rows[i][col] : i \in DOMAIN rows})

\* the rows of one group
GroupRows(rows, col, k) == SelectSeq(rows, LAMBDA r : r[col] = k)

\* mutant of count_complaint_id: counts the Resolved records only
count_complaint_id_resolved(grp) == Len(ResolvedRows(grp))

\* agg 'complaint_id': 'count'
count_complaint_id(grp) == Len(grp)

\* agg 'satisfaction_score': 'mean', then round(2); in hundredths
group_avg_satisfaction(grp) ==
    RoundHalfEven(SumColumn(grp, "satisfaction_score") * 100, Len(grp))

\* mutant of group_avg_resolution_time: the mean over the Resolved records
\* of the group, as in the KPI
group_avg_resolution_time_resolved(grp) ==
    IF Len(ResolvedRows(grp)) > 0
    THEN RoundHalfEven(SumColumn(ResolvedRows(grp), "resolution_time_days") * 100,
                       Len(ResolvedRows(grp)))
    ELSE 0

\* agg 'resolution_time_days': 'mean', then round(2); in hundredths
group_avg_resolution_time(grp) ==
    RoundHalfEven(SumColumn(grp, "resolution_time_days") * 100, Len(grp))

\* groupby(col).agg({...}).reset_index(), columns renamed, rounded
group_agg(rows, col) ==
    LET keys == GroupKeys(rows, col)
    IN  [g \in DOMAIN keys |->
            LET grp == GroupRows(rows, col, keys[g])
            IN  [key |-> keys[g],
                 total_complaints |-> count_complaint_id(grp),
                 avg_satisfaction |-> group_avg_satisfaction(grp),
                 avg_resolution_time |-> group_avg_resolution_time(grp)]]

\* mutant of max_resolution_time: the smallest group mean
max_resolution_time_min(groups) ==
    CHOOSE m \in {groups[g].avg_resolution_time : g \in DOMAIN groups} :
        \A g \in DOMAIN groups : m <= groups[g].avg_resolution_time

\* dept_analysis['avg_resolution_time'].max()
max_resolution_time(groups) ==
    SetMax({groups[g].avg_resolution_time : g \in DOMAIN groups})

\* mutant of efficiency_score: the two weights exchanged
efficiency_score_swapped(S, R, M) ==
    IF M > 0
    THEN [num |-> 2 * S * M + 1500 * (M - R), den |-> 2500 * M]
    ELSE [num |-> S, den |-> 500]

\* mutant of efficiency_score: the speed of a group measured against twice the
\* maximum, so that the slowest group keeps half of the speed weight
efficiency_score_half_speed(S, R, M) ==
    IF M > 0
    THEN [num |-> 6 * S * M + 1000 * (2 * M - R), den |-> 5000 * M]
    ELSE [num |-> S, den |-> 500]

\* the score of a group with mean satisfaction S and mean resolution time R
\* (hundredths) when the maximum over the groups is M:
\*   (S/5) * 0.6 + (1 - R/M) * 0.4   if M > 0,   S/5 otherwise
efficiency_score(S, R, M) ==
    IF M > 0
    THEN [num |-> 3 * S * M + 1000 * (M - R), den |-> 2500 * M]
    ELSE [num |-> S, den |-> 500]

\* a >= b for two scores
ScoreGeq(a, b) ==
    IF a.den = b.den THEN a.num >= b.num ELSE a.num * b.den >= b.num * a.den

ScoreEq(a, b) ==
    IF a.den = b.den THEN a.num = b.num ELSE a.num * b.den = b.num * a.den

\* mutant of performance_category: the thresholds compared with >=
performance_category_inclusive(x) ==
    IF 5 * x.num >= 4 * x.den THEN "Excellent"
    ELSE IF 5 * x.num >= 3 * x.den THEN "Good"
    ELSE "Needs Improvement"

\* lambda x: 'Excellent' if x > 0.8 else 'Good' if x > 0.6 else 'Needs Improvement'
performance_category(x) ==
    IF 5 * x.num > 4 * x.den THEN "Excellent"
    ELSE IF 5 * x.num > 3 * x.den THEN "Good"
    ELSE "Needs Improvement"

\* lambda x: trophy if x == 'Excellent' else thumbs-up if x == 'Good' else warning
performance_emoji(c) ==
    IF c = "Excellent" THEN "trophy" ELSE IF c = "Good" THEN "thumbs up" ELSE "warning"

Permutations(n) ==
    {p \in [1..n -> 1..n] : \A i, j \in 1..n : i # j => p[i] # p[j]}

\* mutant of sort_values: ascending order
sort_values_ascending(scored) ==
    {[i \in DOMAIN scored |-> scored[p[i]]] :
        p \in {q \in Permutations(Len(scored)) :
                \A i \in 1..(Len(scored) - 1) :
                    ScoreGeq(scored[q[i + 1]].efficiency_score,
                             scored[q[i]].efficiency_score)}}

\* sort_values('efficiency_score', ascending=False): the default sort kind is
\* quicksort, which is not stable, so every descending order of the rows is a
\* possible outcome
sort_values(scored) ==
    {[i \in DOMAIN scored |-> scored[p[i]]] :
        p \in {q \in Permutations(Len(scored)) :
                \A i \in 1..(Len(scored) - 1) :
                    ScoreGeq(scored[q[i]].efficiency_score,
                             scored[q[i + 1]].efficiency_score)}}

\* the tables analyze_department_performance can return for the table df
department_performance(df) ==
    IF IsNone(df) \/ Length(df) = 0
    THEN {EmptyDataFrame}
    ELSE
      LET dept_analysis == group_agg(df.rows, "department")
          M == max_resolution_time(dept_analysis)
          scored == [g \in DOMAIN dept_analysis |->
                        [department |-> dept_analysis[g].key,
                         total_complaints |-> dept_analysis[g].total_complaints,
                         avg_satisfaction |-> dept_analysis[g].avg_satisfaction,
                         avg_resolution_time |-> dept_analysis[g].avg_resolution_time,
                         efficiency_score |->
                             efficiency_score(dept_analysis[g].avg_satisfaction,
                                              dept_analysis[g].avg_resolution_time, M)]]
      IN  {[i \in DOMAIN sorted |->
              LET category == performance_category(sorted[i].efficiency_score)
              IN  [department |-> sorted[i].department,
                   total_complaints |-> sorted[i].total_complaints,
                   avg_satisfaction |-> sorted[i].avg_satisfaction,
                   avg_resolution_time |-> sorted[i].avg_resolution_time,
                   efficiency_score |-> sorted[i].efficiency_score,
                   rank |-> i,
                   performance_category |-> category,
                   performance_emoji |-> performance_emoji(category)]] :
           sorted \in sort_values(scored)}

\* the table analyze_regional_performance returns for the table df
regional_performance(df) ==
    IF IsNone(df) \/ Length(df) = 0
    THEN EmptyDataFrame
    ELSE
      LET regional_analysis == group_agg(df.rows, "district")
      IN  [g \in DOMAIN regional_analysis |->
              [district |-> regional_analysis[g].key,
               total_complaints |-> regional_analysis[g].total_complaints,
               avg_satisfaction |-> regional_analysis[g].avg_satisfaction,
               avg_resolution_time |-> regional_analysis[g].avg_resolution_time]]

(***************************************************************************)
(* Columns.  A table whose source lacked a column has rows without the     *)
(* field.  The calculators look at the columns of non-empty tables only.   *)
(***************************************************************************)
\* df.columns of a non-empty table
Columns(df) == DOMAIN df.rows[1]

\* the rows without the column col
DropColumn(rows, col) ==
    [i \in DOMAIN rows |-> [c \in (DOMAIN rows[i]) \ {col} |-> rows[i][c]]]

\* df has rows, and df[col] raises KeyError for some col of cols
MissingColumn(df, cols) ==
    /\ ~IsNone(df)
    /\ Length(df) > 0
    /\ ~(cols \subseteq Columns(df))

\* the columns get_kpi_metrics reads: resolution_time_days is read only when
\* some record is Resolved
kpi_raises(df) ==
    \/ MissingColumn(df, {"status", "satisfaction_score"})
    \/ /\ MissingColumn(df, {"resolution_time_days"})
       /\ Len(ResolvedRows(df.rows)) > 0

\* the columns of groupby(col).agg({...})
group_raises(df, col) ==
    MissingColumn(df, {col, "complaint_id", "satisfaction_score", "resolution_time_days"})

(***************************************************************************)
(* analyze_complaint_patterns                                              *)
(***************************************************************************)
\* df[col].value_counts().to_dict(): value -> number of rows with the value
value_counts(rows, col) ==
    [v \in {rows[i][col] : i \in DOMAIN rows} |->
        Cardinality({i \in DOMAIN rows : rows[i][col] = v})]

\* the first days of the calendar months of the dates explored
MonthStarts == {1, 31}

\* complaint_date.dt.to_period('M'): the month a date falls in
month_of(date) == SetMax({m \in MonthStarts : m <= date})

\* groupby('month').agg(count, mean).round(2)
monthly_trends(rows) ==
    LET months == SortedSeq({month_of(rows[i].complaint_date) : i \in DOMAIN rows})
    IN  [g \in DOMAIN months |->
            LET grp == SelectSeq(rows, LAMBDA r : month_of(r.complaint_date) = months[g])
            IN  [month |-> months[g],
                 complaint_count |-> count_complaint_id(grp),
                 avg_satisfaction |-> group_avg_satisfaction(grp)]]

\* what analyze_complaint_patterns raises on a non-empty table, "" if nothing:
\* the statements run in the order of the checks
patterns_raises(df) ==
    IF MissingColumn(df, {"satisfaction_score"}) THEN "KeyError"
    ELSE IF MissingColumn(df, {"complaint_date"}) THEN "KeyError"
    ELSE IF "complaint_date" \notin df.parsed THEN "AttributeError"
    ELSE IF MissingColumn(df, {"complaint_id"}) THEN "KeyError"
    ELSE ""

\* (category_distribution, satisfaction_distribution, monthly_trends)
complaint_patterns(df) ==
    IF IsNone(df) \/ Length(df) = 0
    THEN <<EmptyMapping, EmptyMapping, EmptyDataFrame>>
    ELSE <<IF "complaint_category" \in Columns(df)
           THEN value_counts(df.rows, "complaint_category")
           ELSE EmptyMapping,
           value_counts(df.rows, "satisfaction_score"),
           monthly_trends(df.rows)>>

(***************************************************************************)
(* analyze_sentiment_data                                                  *)
(***************************************************************************)
\* the sentiment labels, in sorted order
SentimentLabels == <<"Negative", "Neutral", "Positive">>

\* groupby(['department', 'sentiment_label']).size().reset_index(name='count'):
\* one row per pair that occurs, sorted by department, then by label
dept_sentiment(rows) ==
    LET depts == GroupKeys(rows, "department")
        size(d, l) == Cardinality({i \in DOMAIN rows :
                                     rows[i].department = d /\ rows[i].sentiment_label = l})
        all == [k \in 1..(Len(depts) * Len(SentimentLabels)) |->
                  LET d == depts[((k - 1) \div Len(SentimentLabels)) + 1]
                      l == SentimentLabels[((k - 1) % Len(SentimentLabels)) + 1]
                  IN  [department |-> d, sentiment_label |-> l, count |-> size(d, l)]]
    IN  SelectSeq(all, LAMBDA r : r.count > 0)

\* (sentiment_distribution, dept_sentiment)
sentiment_analysis(df) ==
    IF IsNone(df) \/ Length(df) = 0
    THEN <<EmptyMapping, EmptyDataFrame>>
    ELSE <<value_counts(df.rows, "sentiment_label"), dept_sentiment(df.rows)>>

(***************************************************************************)
(* generate_insights_and_recommendations                                   *)
(* A finding or an action item is a record of the fixed text it is built   *)
(* from and the value formatted into it.  Complaint categories are         *)
(* identified by the rank of their name in sorted order.                   *)
(***************************************************************************)
\* insights['recommendations']
Recommendations ==
    <<"Implement online appointment systems to reduce queue times",
      "Conduct staff training focused on customer service excellence",
      "Digitize more services to reduce physical office visits",
      "Share best practices from top-performing departments",
      "Establish real-time performance monitoring systems",
      "Create streamlined citizen feedback collection mechanisms">>

\* the insights of an absent or empty subset
EmptyInsights == [key_findings |-> <<>>, recommendations |-> <<>>, action_items |-> <<>>]

\* complaints_df['complaint_category'].mode().iloc[0]: Series.mode() returns
\* the most frequent values in sorted order, iloc[0] is the first of them
top_complaint(rows) ==
    LET counts == value_counts(rows, "complaint_category")
        most == SetMax({counts[v] : v \in DOMAIN counts})
    IN  SetMin({v \in DOMAIN counts : counts[v] = most})

\* 'complaint_category' in complaints_df.columns and not ...empty
has_complaint_category(df) == "complaint_category" \in Columns(df)

\* mutant of key_findings: the department findings come before the category
\* finding
key_findings_departments_first(df, dept_analysis) ==
    LET kpis == kpi_metrics(df)
    IN  <<[finding |-> "Total of {} complaints processed",
           value |-> kpis.total_complaints],
          [finding |-> "Average citizen satisfaction: {}/5",
           value |-> kpis.avg_satisfaction],
          [finding |-> "Resolution rate: {}%",
           value |-> kpis.resolution_rate],
          [finding |-> "Average resolution time: {} days",
           value |-> kpis.avg_resolution_time]>>
        \o (IF Len(dept_analysis) > 0
            THEN <<[finding |-> "Best performing department: {}",
                    value |-> dept_analysis[1].department],
                   [finding |-> "Department needing attention: {}",
                    value |-> dept_analysis[Len(dept_analysis)].department]>>
            ELSE <<>>)
        \o (IF has_complaint_category(df)
            THEN <<[finding |-> "Most common complaint: {}",
                    value |-> top_complaint(df.rows)]>>
            ELSE <<>>)

\* insights['key_findings'] of a non-empty subset
key_findings(df, dept_analysis) ==
    LET kpis == kpi_metrics(df)
    IN  <<[finding |-> "Total of {} complaints processed",
           value |-> kpis.total_complaints],
          [finding |-> "Average citizen satisfaction: {}/5",
           value |-> kpis.avg_satisfaction],
          [finding |-> "Resolution rate: {}%",
           value |-> kpis.resolution_rate],
          [finding |-> "Average resolution time: {} days",
           value |-> kpis.avg_resolution_time]>>
        \o (IF has_complaint_category(df)
            THEN <<[finding |-> "Most common complaint: {}",
                    value |-> top_complaint(df.rows)]>>
            ELSE <<>>)
        \o (IF Len(dept_analysis) > 0
            THEN <<[finding |-> "Best performing department: {}",
                    value |-> dept_analysis[1].department],
                   [finding |-> "Department needing attention: {}",
                    value |-> dept_analysis[Len(dept_analysis)].department]>>
            ELSE <<>>)

\* mutant of action_items: the modal-category item comes before the
\* worst-department item
action_items_category_first(df, dept_analysis) ==
    (IF has_complaint_category(df)
     THEN <<[priority |-> "Medium",
             action |-> "Implement solutions for {} issues",
             value |-> top_complaint(df.rows),
             timeline |-> "2 months",
             expected_impact |-> "Medium"]>>
     ELSE <<>>)
    \o (IF Len(dept_analysis) > 0
        THEN <<[priority |-> "High",
                action |-> "Address performance issues in {}",
                value |-> dept_analysis[Len(dept_analysis)].department,
                timeline |-> "1 month",
                expected_impact |-> "High"]>>
        ELSE <<>>)
    \o <<[priority |-> "Medium",
          action |-> "Launch comprehensive staff training program",
          timeline |-> "3 months",
          expected_impact |-> "High"],
         [priority |-> "Low",
          action |-> "Expand digital service offerings",
          timeline |-> "6 months",
          expected_impact |-> "Medium"]>>

\* the rows of insights['action_items'] of a non-empty subset
action_items(df, dept_analysis) ==
    (IF Len(dept_analysis) > 0
     THEN <<[priority |-> "High",
             action |-> "Address performance issues in {}",
             value |-> dept_analysis[Len(dept_analysis)].department,
             timeline |-> "1 month",
             expected_impact |-> "High"]>>
     ELSE <<>>)
    \o (IF has_complaint_category(df)
        THEN <<[priority |-> "Medium",
                action |-> "Implement solutions for {} issues",
                value |-> top_complaint(df.rows),
                timeline |-> "2 months",
                expected_impact |-> "Medium"]>>
        ELSE <<>>)
    \o <<[priority |-> "Medium",
          action |-> "Launch comprehensive staff training program",
          timeline |-> "3 months",
          expected_impact |-> "High"],
         [priority |-> "Low",
          action |-> "Expand digital service offerings",
          timeline |-> "6 months",
          expected_impact |-> "Medium"]>>

\* mutant of insights: the recommendations are filled in before the subset
\* is tested for emptiness
insights_recommends_on_empty(df, dept_analysis) ==
    IF IsNone(df) \/ Length(df) = 0
    THEN [key_findings |-> <<>>, recommendations |-> Recommendations,
          action_items |-> <<>>]
    ELSE [key_findings |-> key_findings(df, dept_analysis),
          recommendations |-> Recommendations,
          action_items |-> action_items(df, dept_analysis)]

\* mutant of insights: the best-practice recommendation is made only when
\* there is a department analysis
insights_by_analysis(df, dept_analysis) ==
    IF IsNone(df) \/ Length(df) = 0
    THEN EmptyInsights
    ELSE [key_findings |-> key_findings(df, dept_analysis),
          recommendations |->
              IF Len(dept_analysis) > 0 THEN Recommendations
              ELSE SelectSeq(Recommendations,
                             LAMBDA t : t # "Share best practices from top-performing departments"),
          action_items |-> action_items(df, dept_analysis)]

\* the dictionary returned for the subset df and the department analysis
insights(df, dept_analysis) ==
    IF IsNone(df) \/ Length(df) = 0
    THEN EmptyInsights
    ELSE [key_findings |-> key_findings(df, dept_analysis),
          recommendations |-> Recommendations,
          action_items |-> action_items(df, dept_analysis)]

(***************************************************************************)
(* The calculators as operations.  A caller passes a subset or nothing     *)
(* (None), and nothing means self.complaints_df.                           *)
(***************************************************************************)
NoCall == [op |-> "none"]

\* no dashboard run: the engine is driven by a caller of its own
NoRun == [pc |-> "none"]

\* complaints_df = self.complaints_df if complaints_df is None
DefaultComplaints(arg) == IF IsNone(arg) THEN complaints_df ELSE arg

\* what a caller passes as complaints_df: nothing, or the subset it holds
ComplaintArguments ==
    {None} \cup (IF filtered_complaints = Unset THEN {} ELSE {filtered_complaints})

\* the record of a call that returned, and of a call that raised
Returned(op, df, result) == [op |-> op, complaints_df |-> df, result |-> result]
Raised(op, df, exception) == [op |-> op, complaints_df |-> df, raised |-> exception]

get_kpi_metrics ==
    \E arg \in ComplaintArguments :
        LET df == DefaultComplaints(arg)
        IN  /\ call' = IF kpi_raises(df)
                       THEN Raised("get_kpi_metrics", df, "KeyError")
                       ELSE Returned("get_kpi_metrics", df, kpi_metrics(df))
            /\ UNCHANGED <<engine, filtered_complaints, filtered_sentiment, dashboard>>

analyze_department_performance ==
    \E arg \in ComplaintArguments :
        LET df == DefaultComplaints(arg)
            raises == group_raises(df, "department")
        IN  \E result \in (IF raises THEN {EmptyDataFrame} ELSE department_performance(df)) :
                /\ call' = IF raises
                           THEN Raised("analyze_department_performance", df, "KeyError")
                           ELSE Returned("analyze_department_performance", df, result)
                /\ UNCHANGED <<engine, filtered_complaints, filtered_sentiment, dashboard>>

analyze_regional_performance ==
    \E arg \in ComplaintArguments :
        LET df == DefaultComplaints(arg)
        IN  /\ call' = IF group_raises(df, "district")
                       THEN Raised("analyze_regional_performance", df, "KeyError")
                       ELSE Returned("analyze_regional_performance", df,
                                     regional_performance(df))
            /\ UNCHANGED <<engine, filtered_complaints, filtered_sentiment, dashboard>>

\* mutant of copy_aliases: no copy is made, the working table is the one
\* the calculator was given
copy_aliases_kept(aliases) == aliases

\* complaints_df.copy(): the copy is a table of its own, whatever the
\* original was (aliases: the original is self.complaints_df)
copy_aliases(aliases) == FALSE

\* complaints_df_copy['month'] = ...: the rows with the month column added
with_month(rows) ==
    [i \in DOMAIN rows |->
        [c \in (DOMAIN rows[i]) \cup {"month"} |->
            IF c = "month" THEN month_of(rows[i].complaint_date) ELSE rows[i][c]]]

\* The table the calculator works on is self.complaints_df itself when the
\* caller passes nothing; the month column is assigned on the table that
\* copy() returned.
analyze_complaint_patterns ==
    \E arg \in ComplaintArguments :
        LET df == DefaultComplaints(arg)
            worked == ~IsNone(df) /\ Length(df) > 0
            exception == IF worked THEN patterns_raises(df) ELSE ""
            assigned == worked /\ exception \notin {"KeyError"}
                               /\ "complaint_date" \in Columns(df)
                               /\ "complaint_date" \in df.parsed
        IN  /\ call' = IF exception # ""
                       THEN Raised("analyze_complaint_patterns", df, exception)
                       ELSE Returned("analyze_complaint_patterns", df,
                                     complaint_patterns(df))
            /\ complaints_df' = IF assigned /\ copy_aliases(IsNone(arg))
                                THEN DataFrame(with_month(complaints_df.rows),
                                               complaints_df.parsed)
                                ELSE complaints_df
            /\ UNCHANGED <<employee_df, sentiment_df, department_df, is_data_loaded,
                           filtered_complaints, filtered_sentiment, dashboard>>

\* sentiment_df = self.sentiment_df if sentiment_df is None
DefaultSentiment(arg) == IF IsNone(arg) THEN sentiment_df ELSE arg

\* what a caller passes as sentiment_df: nothing, or the subset it holds
SentimentArguments ==
    {None} \cup (IF filtered_sentiment = Unset THEN {} ELSE {filtered_sentiment})

analyze_sentiment_data ==
    \E arg \in SentimentArguments :
        LET df == DefaultSentiment(arg)
        IN  /\ call' = IF MissingColumn(df, {"sentiment_label", "department"})
                       THEN [op |-> "analyze_sentiment_data", sentiment_df |-> df,
                             raised |-> "KeyError"]
                       ELSE [op |-> "analyze_sentiment_data", sentiment_df |-> df,
                             result |-> sentiment_analysis(df)]
            /\ UNCHANGED <<engine, filtered_complaints, filtered_sentiment, dashboard>>

\* what a caller passes as dept_analysis: nothing, or an analysis without rows
DeptAnalysisArguments == {None, DataFrame(EmptyDataFrame, {})}

\* dept_analysis is computed from the subset when the caller passes nothing
\* (line 193, before the subset is tested for emptiness); get_kpi_metrics is
\* called on non-empty subsets
generate_insights_and_recommendations ==
    \E arg \in ComplaintArguments, dept_arg \in DeptAnalysisArguments :
        LET df == DefaultComplaints(arg)
            raises == \/ IsNone(dept_arg) /\ group_raises(df, "department")
                      \/ kpi_raises(df)
        IN  \E dept_analysis \in
                  (IF raises THEN {EmptyDataFrame}
                   ELSE IF IsNone(dept_arg) THEN department_performance(df)
                   ELSE {dept_arg.rows}) :
                /\ call' = IF raises
                           THEN [op |-> "generate_insights_and_recommendations",
                                 complaints_df |-> df,
                                 raised |-> "KeyError"]
                           ELSE [op |-> "generate_insights_and_recommendations",
                                 complaints_df |-> df,
                                 dept_analysis |-> dept_analysis,
                                 result |-> insights(df, dept_analysis)]
                /\ UNCHANGED <<engine, filtered_complaints, filtered_sentiment, dashboard>>

(***************************************************************************)
(* The calculators on every complaint subset of the bounded input set: the *)
(* engine is as constructed, the caller holds a subset.                    *)
(***************************************************************************)
\* __init__
Constructed ==
    /\ complaints_df = None
    /\ employee_df = None
    /\ sentiment_df = None
    /\ department_df = None
    /\ is_data_loaded = FALSE

\* a caller holding the table of the given rows, before any call
HoldsSubset(profiles) ==
    /\ filtered_complaints = DataFrame(WithIds(profiles), ComplaintDateColumns)
    /\ filtered_sentiment = None
    /\ call = NoCall
    /\ dashboard = NoRun

\* the subsets explored:
\*   one department, with every status, score and resolution time;
\*   two departments, likewise;
\*   three departments of Resolved records with positive resolution times;
\*   two districts of equal records
InitCalc ==
    /\ Constructed
    /\ \/ \E k \in 0..MaxRows :
            \E p \in [1..k -> ComplaintProfiles({1}, {1}, Statuses, SatisfactionScores,
                                                ResolutionDays, {1})] :
                HoldsSubset(p)
       \/ \E k \in 0..MaxDeptRows :
            \E p \in [1..k -> ComplaintProfiles(Departments, {1}, Statuses,
                                                SatisfactionScores, ResolutionDays, {1})] :
                HoldsSubset(p)
       \/ \E k \in 0..MaxRows :
            \E p \in [1..k -> ComplaintProfiles(MoreDepartments, {1}, {"Resolved"},
                                                SatisfactionScores,
                                                PositiveResolutionDays, {1})] :
                HoldsSubset(p)
       \/ \E k \in 0..MaxRows :
            \E p \in [1..k -> ComplaintProfiles({1}, Districts, {"Resolved"},
                                                {5}, {10}, {1})] :
                HoldsSubset(p)

NextCalc ==
    \/ get_kpi_metrics
    \/ analyze_department_performance
    \/ analyze_regional_performance

SpecCalc == InitCalc /\ [][NextCalc]_vars

(***************************************************************************)
(* load_data                                                               *)
(***************************************************************************)
\* rows of a sentiment table; post_id is the row's position in the file
SentimentProfiles(depts, dists, dates) ==
    [department : depts, district : dists, post_date : dates,
     sentiment_label : {"Positive"}]

WithPostIds(profiles) ==
    [i \in DOMAIN profiles |->
        [post_id |-> i,
         department |-> profiles[i].department,
         district |-> profiles[i].district,
         post_date |-> profiles[i].post_date,
         sentiment_label |-> profiles[i].sentiment_label]]

PostTablesOver(profiles, n) ==
    UNION {{WithPostIds(p) : p \in [1..k -> profiles]} : k \in 0..n}

\* the complaints files explored: the records of a file differ in one column,
\* the department, the district or the date
ComplaintFiles ==
    TablesOver(ComplaintProfiles(Departments, {1}, {"Resolved"}, {5}, {10}, {1}),
               MaxComplaints)
    \cup TablesOver(ComplaintProfiles({1}, Districts, {"Resolved"}, {5}, {10}, {1}),
                    MaxComplaints)
    \cup TablesOver(ComplaintProfiles({1}, {1}, {"Resolved"}, {5}, {10}, Dates),
                    MaxComplaints)

\* the sentiment files explored, likewise
SentimentFiles ==
    PostTablesOver(SentimentProfiles(Departments, {1}, {1}), MaxPosts)
    \cup PostTablesOver(SentimentProfiles({1}, Districts, {1}), MaxPosts)
    \cup PostTablesOver(SentimentProfiles({1}, {1}, Dates), MaxPosts)

\* the employee and department-summary tables: one row each
EmployeeFile == DataFrame(<<[employee_id |-> 1]>>, {})
DepartmentFile == DataFrame(<<[department |-> 1]>>, {})

\* The steps of load_data that can raise, in the order the code runs them:
\* the four pd.read_csv calls, then the three pd.to_datetime conversions.
\* An outcome of the environment is the first step that raises, or
\* LoadSteps + 1 when none does.
LoadSteps == 7

\* mutant of is_data_loaded_after: a failing load leaves the flag as it was
is_data_loaded_after_kept(fail, was) == (fail > LoadSteps) \/ was

\* self.is_data_loaded after load_data: True at the end of the try block,
\* False in the except block
is_data_loaded_after(fail, was) == fail > LoadSteps

\* the engine after load_data read complaints rows c, employee table e,
\* sentiment rows s and department table d, and its step number fail raised
\* (fail = LoadSteps + 1: no step raised)
load_data_from(c, e, s, d, fail) ==
    /\ complaints_df' =
          IF fail <= 1 THEN complaints_df
          ELSE DataFrame(c, (IF fail > 5 THEN {"complaint_date"} ELSE {})
                            \cup (IF fail > 6 THEN {"resolution_date"} ELSE {}))
    /\ employee_df' = IF fail <= 2 THEN employee_df ELSE e
    /\ sentiment_df' =
          IF fail <= 3 THEN sentiment_df
          ELSE DataFrame(s, IF fail > 7 THEN {"post_date"} ELSE {})
    /\ department_df' = IF fail <= 4 THEN department_df ELSE d
    /\ is_data_loaded' = is_data_loaded_after(fail, is_data_loaded)
    /\ call' = [op |-> "load_data",
                result |-> IF fail > LoadSteps
                           THEN <<TRUE, "Data loaded successfully">>
                           ELSE <<FALSE, "Error loading data">>]

\* Every caller in the repository (DashboardUI.run, test_analytics_engine)
\* constructs its engine and loads it once: load_data is called on an engine
\* that holds no table yet.  The files read before the step that raises are
\* the only ones whose content matters.
load_data ==
    /\ Constructed
    /\ \E fail \in 1..(LoadSteps + 1) :
        \E c \in (IF fail > 1 THEN ComplaintFiles ELSE {<<>>}),
           s \in (IF fail > 3 THEN SentimentFiles ELSE {<<>>}) :
            load_data_from(c, EmployeeFile, s, DepartmentFile, fail)
    /\ UNCHANGED <<filtered_complaints, filtered_sentiment, dashboard>>

\* The files of a store that is loaded again and again: each of the four
\* files holds one row and has two possible contents, so that a table read
\* by one load differs from the table an earlier load left.
ReloadComplaintFiles ==
    {WithIds(<<p>>) : p \in ComplaintProfiles({1}, {1}, {"Resolved"}, {5}, {10}, Dates)}
ReloadEmployeeFiles == {DataFrame(<<[employee_id |-> e]>>, {}) : e \in {1, 2}}
ReloadSentimentFiles ==
    {WithPostIds(<<p>>) : p \in SentimentProfiles({1}, {1}, Dates)}
ReloadDepartmentFiles == {DataFrame(<<[department |-> d]>>, {}) : d \in Departments}

\* load_data invoked on any engine, loaded or not
reload_data ==
    /\ \E fail \in 1..(LoadSteps + 1) :
        \E c \in (IF fail > 1 THEN ReloadComplaintFiles ELSE {<<>>}),
           e \in (IF fail > 2 THEN ReloadEmployeeFiles ELSE {None}),
           s \in (IF fail > 3 THEN ReloadSentimentFiles ELSE {<<>>}),
           d \in (IF fail > 4 THEN ReloadDepartmentFiles ELSE {None}) :
            load_data_from(c, e, s, d, fail)
    /\ UNCHANGED <<filtered_complaints, filtered_sentiment, dashboard>>

(***************************************************************************)
(* filter_data                                                             *)
(***************************************************************************)
\* a list argument
List(items) == [kind |-> "list", items |-> items]
\* a (start, end) tuple
DateRange(start, end) == [kind |-> "tuple", start |-> start, end |-> end]

DepartmentSelections == {None} \cup {List(S) : S \in SUBSET Departments}
DistrictSelections == {None} \cup {List(S) : S \in SUBSET Districts}
DateRanges == {None} \cup {DateRange(a, b) : a, b \in Dates}

\* mutant of Selected: any list, even an empty one, is a selection
Selected_any_list(selection) == ~IsNone(selection)

\* `departments and len(departments) > 0`
Selected(selection) == ~IsNone(selection) /\ selection.items # {}

\* df[df[col].isin(selection)] when a selection is made, df otherwise
filter_isin(rows, col, selection) ==
    IF Selected(selection)
    THEN SelectSeq(rows, LAMBDA r : r[col] \in selection.items)
    ELSE rows

\* mutant of filter_dates: the end of the range is excluded
filter_dates_exclusive(rows, col, date_range) ==
    IF ~IsNone(date_range)
    THEN SelectSeq(rows, LAMBDA r : r[col] >= date_range.start /\ r[col] < date_range.end)
    ELSE rows

\* df[(df[col] >= start) & (df[col] <= end)] when a range is given
filter_dates(rows, col, date_range) ==
    IF ~IsNone(date_range)
    THEN SelectSeq(rows, LAMBDA r : r[col] >= date_range.start /\ r[col] <= date_range.end)
    ELSE rows

\* the rows of a base table that pass the three filters
filter_rows(rows, date_col, departments, districts, date_range) ==
    filter_dates(filter_isin(filter_isin(rows, "department", departments),
                             "district", districts),
                 date_col, date_range)

\* The caller (DashboardUI.run) calls filter_data once and keeps the two
\* subsets it returns.
filter_data ==
    \/ /\ filtered_complaints = Unset
       /\ ~is_data_loaded
       /\ filtered_complaints' = None
       /\ filtered_sentiment' = None
       /\ call' = [op |-> "filter_data", result |-> <<None, None>>]
       /\ UNCHANGED <<engine, dashboard>>
    \/ /\ filtered_complaints = Unset
       /\ is_data_loaded
       /\ \E departments \in DepartmentSelections, districts \in DistrictSelections,
             date_range \in DateRanges :
            LET fc == DataFrame(filter_rows(complaints_df.rows, "complaint_date",
                                            departments, districts, date_range),
                                complaints_df.parsed)
                fs == DataFrame(filter_rows(sentiment_df.rows, "post_date",
                                            departments, districts, date_range),
                                sentiment_df.parsed)
            IN  /\ filtered_complaints' = fc
                /\ filtered_sentiment' = fs
                /\ call' = [op |-> "filter_data",
                            departments |-> departments,
                            districts |-> districts,
                            date_range |-> date_range,
                            result |-> <<fc, fs>>]
       /\ UNCHANGED <<engine, dashboard>>

(***************************************************************************)
(* get_unique_values, get_data_summary                                     *)
(***************************************************************************)
\* sorted(df[col].unique().tolist()): the values of the column, as a list
\* without repetition (a list is identified by the set of its items)
unique_values(df, col) == List({df.rows[i][col] : i \in DOMAIN df.rows})

get_unique_values ==
    /\ call' = [op |-> "get_unique_values",
                result |-> IF ~is_data_loaded
                           THEN <<List({}), List({})>>
                           ELSE <<unique_values(complaints_df, "department"),
                                  unique_values(complaints_df, "district")>>]
    /\ UNCHANGED <<engine, filtered_complaints, filtered_sentiment, dashboard>>

\* the summary of a loaded store with at least one complaint
data_summary ==
    LET dates == {complaints_df.rows[i].complaint_date : i \in DOMAIN complaints_df.rows}
    IN  [complaints_count |-> Length(complaints_df),
         employees_count |-> Length(employee_df),
         sentiment_posts |-> Length(sentiment_df),
         departments_count |-> Length(department_df),
         date_range |-> [start |-> SetMin(dates), end |-> SetMax(dates)]]

\* Series.min() of an empty date column is NaT, and NaT.strftime raises
\* ValueError: the summary of a loaded store without complaints raises
get_data_summary ==
    /\ call' = IF ~is_data_loaded
               THEN [op |-> "get_data_summary", result |-> EmptyMapping]
               ELSE IF Length(complaints_df) = 0
               THEN [op |-> "get_data_summary", raised |-> "ValueError"]
               ELSE [op |-> "get_data_summary", result |-> data_summary]
    /\ UNCHANGED <<engine, filtered_complaints, filtered_sentiment, dashboard>>

(***************************************************************************)
(* The engine: constructed empty, then any sequence of calls.              *)
(***************************************************************************)
Init ==
    /\ Constructed
    /\ filtered_complaints = Unset
    /\ filtered_sentiment = Unset
    /\ call = NoCall
    /\ dashboard = NoRun

Next ==
    \/ load_data
    \/ get_unique_values
    \/ get_data_summary
    \/ filter_data
    \/ get_kpi_metrics
    \/ analyze_department_performance
    \/ analyze_regional_performance
    \/ analyze_complaint_patterns
    \/ analyze_sentiment_data
    \/ generate_insights_and_recommendations

Spec == Init /\ [][Next]_vars

(***************************************************************************)
(* The store under repeated loads: any sequence of load_data calls, and a  *)
(* filter_data call at any point of it.                                    *)
(***************************************************************************)
NextReload ==
    \/ reload_data
    \/ filter_data

SpecReload == Init /\ [][NextReload]_vars

(***************************************************************************)
(* The six calculators on complaint subsets with several categories,       *)
(* months and departments, on subsets that lack a column, and on sentiment *)
(* subsets.                                                                *)
(***************************************************************************)
\* the complaint categories of the subsets explored, by sorted rank
Categories == {1, 2}

\* complaint dates in two calendar months
MonthDates == {1, 31}

\* rows that differ in department, category and month
CategoryProfiles(depts, cats, dates) ==
    [department : depts, district : {1}, status : {"Resolved"},
     satisfaction_score : {5}, resolution_time_days : {10},
     complaint_date : dates, complaint_category : cats]

\* sentiment rows that differ in department and label
LabelledPosts ==
    [department : Departments, district : {1}, post_date : {1},
     sentiment_label : {"Negative", "Positive"}]

\* a caller holding the complaint table of the given rows, before any call
HoldsTable(rows) ==
    /\ filtered_complaints = DataFrame(rows, ComplaintDateColumns)
    /\ filtered_sentiment = None
    /\ call = NoCall
    /\ dashboard = NoRun

\* a caller holding the sentiment table of the given rows, before any call
HoldsPosts(profiles) ==
    /\ filtered_complaints = None
    /\ filtered_sentiment = DataFrame(WithPostIds(profiles), SentimentDateColumns)
    /\ call = NoCall
    /\ dashboard = NoRun

\* the subsets explored:
\*   complaints of two departments and two categories;
\*   complaints of two months;
\*   complaints without the complaint_category column;
\*   complaints without the satisfaction_score column;
\*   sentiment posts of two departments and two labels
InitInsights ==
    /\ Constructed
    /\ \/ \E k \in 0..MaxCategoryRows :
            \E p \in [1..k -> CategoryProfiles(Departments, Categories, {1})] :
                HoldsTable(WithIds(p))
       \/ \E k \in 0..MaxCategoryRows :
            \E p \in [1..k -> CategoryProfiles({1}, {1}, MonthDates)] :
                HoldsTable(WithIds(p))
       \/ \E k \in 0..MaxCategoryRows :
            \E p \in [1..k -> CategoryProfiles(Departments, {1}, {1})] :
                HoldsTable(DropColumn(WithIds(p), "complaint_category"))
       \/ \E k \in 0..MaxCategoryRows :
            \E p \in [1..k -> CategoryProfiles(Departments, {1}, {1})] :
                HoldsTable(DropColumn(WithIds(p), "satisfaction_score"))
       \/ \E k \in 0..MaxLabelledPosts :
            \E p \in [1..k -> LabelledPosts] :
                HoldsPosts(p)

NextInsights ==
    \/ get_kpi_metrics
    \/ analyze_department_performance
    \/ analyze_regional_performance
    \/ analyze_complaint_patterns
    \/ analyze_sentiment_data
    \/ generate_insights_and_recommendations

SpecInsights == InitInsights /\ [][NextInsights]_vars

(***************************************************************************)
(* The dashboard (src/dashboard_ui.py, class DashboardUI).  Streamlit runs *)
(* the script from the top on every interaction: main constructs a         *)
(* DashboardUI, which constructs its engine, and calls run.  The position  *)
(* of the run is the section that is rendered next; a step is a section,   *)
(* split at its engine calls.                                              *)
(*   calls   the engine methods the run has called, in order               *)
(*   errors  the messages the run has shown with st.error                  *)
(*   load    what load_data returned to the run (<<>> before the call)     *)
(*   departments, districts   what the sidebar multiselects returned       *)
(***************************************************************************)
\* DashboardUI() and the call of run
NewRun ==
    [pc |-> "render_header", calls |-> <<>>, errors |-> <<>>, load |-> <<>>,
     departments |-> Unset, districts |-> Unset]

\* the run at position pc after calling the engine method op
Called(op, pc) == [dashboard EXCEPT !.pc = pc, !.calls = Append(@, op)]

\* the run is over: run returned, st.stop() ended the script, or an
\* exception left run
RunOver == dashboard.pc \in {"done", "stopped", "raised"}

\* main: the script is run again, with a dashboard and an engine of its own
main ==
    /\ RunOver
    /\ complaints_df' = None
    /\ employee_df' = None
    /\ sentiment_df' = None
    /\ department_df' = None
    /\ is_data_loaded' = FALSE
    /\ filtered_complaints' = Unset
    /\ filtered_sentiment' = Unset
    /\ call' = NoCall
    /\ dashboard' = NewRun

render_header ==
    /\ dashboard.pc = "render_header"
    /\ dashboard' = [dashboard EXCEPT !.pc = "render_data_loading_section"]
    /\ UNCHANGED <<engine, filtered_complaints, filtered_sentiment, call>>

\* mutant of after_load: the section goes on to the summary whatever
\* load_data returned
after_load_without_stop(success) == "get_data_summary"

\* `if not success: st.error(...) ... st.stop()`: where the run is after
\* load_data returned
after_load(success) == IF success THEN "get_data_summary" ELSE "stopped"

\* st.error(f"... {message}") when load_data returned failure
load_errors(success, message) == IF success THEN <<>> ELSE <<message>>

\* render_data_loading_section up to st.stop(): load_data is called on the
\* engine the dashboard constructed
render_data_loading_section ==
    /\ dashboard.pc = "render_data_loading_section"
    /\ \E fail \in 1..(LoadSteps + 1) :
        \E c \in (IF fail > 1 THEN ComplaintFiles ELSE {<<>>}),
           s \in (IF fail > 3 THEN SentimentFiles ELSE {<<>>}) :
            load_data_from(c, EmployeeFile, s, DepartmentFile, fail)
    /\ dashboard' =
          [dashboard EXCEPT
              !.pc = after_load(call'.result[1]),
              !.calls = Append(@, "load_data"),
              !.load = call'.result,
              !.errors = @ \o load_errors(call'.result[1], call'.result[2])]
    /\ UNCHANGED <<filtered_complaints, filtered_sentiment>>

\* render_data_loading_section from get_data_summary on: an exception of the
\* engine leaves run
render_dataset_overview ==
    /\ dashboard.pc = "get_data_summary"
    /\ call' = IF ~is_data_loaded
               THEN [op |-> "get_data_summary", result |-> EmptyMapping]
               ELSE IF Length(complaints_df) = 0
               THEN [op |-> "get_data_summary", raised |-> "ValueError"]
               ELSE [op |-> "get_data_summary", result |-> data_summary]
    /\ dashboard' = Called("get_data_summary",
                           IF is_data_loaded /\ Length(complaints_df) = 0
                           THEN "raised" ELSE "render_sidebar_filters")
    /\ UNCHANGED <<engine, filtered_complaints, filtered_sentiment>>

\* the options of the two multiselects are what get_unique_values returned;
\* the user's selection is any part of the options (by default all of them)
render_sidebar_filters ==
    /\ dashboard.pc = "render_sidebar_filters"
    /\ call' = [op |-> "get_unique_values",
                result |-> IF ~is_data_loaded
                           THEN <<List({}), List({})>>
                           ELSE <<unique_values(complaints_df, "department"),
                                  unique_values(complaints_df, "district")>>]
    /\ \E departments \in SUBSET call'.result[1].items,
          districts \in SUBSET call'.result[2].items :
            dashboard' = [Called("get_unique_values", "filter_data") EXCEPT
                             !.departments = List(departments),
                             !.districts = List(districts)]
    /\ UNCHANGED <<engine, filtered_complaints, filtered_sentiment>>

\* run: filter_data(departments=departments, districts=districts,
\* date_range=None) on the loaded engine
run_filter_data ==
    /\ dashboard.pc = "filter_data"
    /\ LET fc == DataFrame(filter_rows(complaints_df.rows, "complaint_date",
                                       dashboard.departments, dashboard.districts,
                                       None),
                           complaints_df.parsed)
           fs == DataFrame(filter_rows(sentiment_df.rows, "post_date",
                                       dashboard.departments, dashboard.districts,
                                       None),
                           sentiment_df.parsed)
       IN  /\ filtered_complaints' = fc
           /\ filtered_sentiment' = fs
           /\ call' = [op |-> "filter_data",
                       departments |-> dashboard.departments,
                       districts |-> dashboard.districts,
                       date_range |-> None,
                       result |-> <<fc, fs>>]
    /\ dashboard' = Called("filter_data", "render_sidebar_data_info")
    /\ UNCHANGED engine

\* the sidebar summary reads the two subsets and calls no engine method
render_sidebar_data_info ==
    /\ dashboard.pc = "render_sidebar_data_info"
    /\ dashboard' = [dashboard EXCEPT !.pc = "render_kpi_section"]
    /\ UNCHANGED <<engine, filtered_complaints, filtered_sentiment, call>>

\* where the run is after an engine call: at the next section, or out of run
\* when the call raised
AfterCall(op, raises, pc) == Called(op, IF raises THEN "raised" ELSE pc)

render_kpi_section ==
    /\ dashboard.pc = "render_kpi_section"
    /\ LET df == filtered_complaints
       IN  /\ call' = IF kpi_raises(df)
                      THEN Raised("get_kpi_metrics", df, "KeyError")
                      ELSE Returned("get_kpi_metrics", df, kpi_metrics(df))
           /\ dashboard' = AfterCall("get_kpi_metrics", kpi_raises(df),
                                     "render_department_section")
    /\ UNCHANGED <<engine, filtered_complaints, filtered_sentiment>>

render_department_section ==
    /\ dashboard.pc = "render_department_section"
    /\ LET df == filtered_complaints
           raises == group_raises(df, "department")
       IN  \E result \in (IF raises THEN {EmptyDataFrame} ELSE department_performance(df)) :
               /\ call' = IF raises
                          THEN Raised("analyze_department_performance", df, "KeyError")
                          ELSE Returned("analyze_department_performance", df, result)
               /\ dashboard' = AfterCall("analyze_department_performance", raises,
                                         "render_complaint_patterns")
    /\ UNCHANGED <<engine, filtered_complaints, filtered_sentiment>>

\* the subset passed is not self.complaints_df: the engine's table is left
\* alone
render_complaint_patterns ==
    /\ dashboard.pc = "render_complaint_patterns"
    /\ LET df == filtered_complaints
           exception == IF Length(df) > 0 THEN patterns_raises(df) ELSE ""
       IN  /\ call' = IF exception # ""
                      THEN Raised("analyze_complaint_patterns", df, exception)
                      ELSE Returned("analyze_complaint_patterns", df,
                                    complaint_patterns(df))
           /\ dashboard' = AfterCall("analyze_complaint_patterns", exception # "",
                                     "render_sentiment_section")
    /\ UNCHANGED <<engine, filtered_complaints, filtered_sentiment>>

\* `if sentiment_df.empty: st.warning(...); return` comes before the engine
\* call
render_sentiment_section ==
    /\ dashboard.pc = "render_sentiment_section"
    /\ LET df == filtered_sentiment
           raises == MissingColumn(df, {"sentiment_label", "department"})
       IN  IF Length(df) = 0
           THEN /\ dashboard' = [dashboard EXCEPT !.pc = "render_insights_section"]
                /\ UNCHANGED call
           ELSE /\ call' = IF raises
                           THEN [op |-> "analyze_sentiment_data", sentiment_df |-> df,
                                 raised |-> "KeyError"]
                           ELSE [op |-> "analyze_sentiment_data", sentiment_df |-> df,
                                 result |-> sentiment_analysis(df)]
                /\ dashboard' = AfterCall("analyze_sentiment_data", raises,
                                          "render_insights_section")
    /\ UNCHANGED <<engine, filtered_complaints, filtered_sentiment>>

\* generate_insights_and_recommendations(complaints_df): no analysis is
\* passed, the engine computes it from the subset
render_insights_section ==
    /\ dashboard.pc = "render_insights_section"
    /\ LET df == filtered_complaints
           raises == group_raises(df, "department") \/ kpi_raises(df)
       IN  \E dept_analysis \in
                 (IF raises THEN {EmptyDataFrame} ELSE department_performance(df)) :
               /\ call' = IF raises
                          THEN [op |-> "generate_insights_and_recommendations",
                                complaints_df |-> df,
                                raised |-> "KeyError"]
                          ELSE [op |-> "generate_insights_and_recommendations",
                                complaints_df |-> df,
                                dept_analysis |-> dept_analysis,
                                result |-> insights(df, dept_analysis)]
               /\ dashboard' = AfterCall("generate_insights_and_recommendations",
                                         raises, "done")
    /\ UNCHANGED <<engine, filtered_complaints, filtered_sentiment>>

\* main has constructed the dashboard and its engine, and called run
InitRun ==
    /\ Constructed
    /\ filtered_complaints = Unset
    /\ filtered_sentiment = Unset
    /\ call = NoCall
    /\ dashboard = NewRun

NextRun ==
    \/ main
    \/ render_header
    \/ render_data_loading_section
    \/ render_dataset_overview
    \/ render_sidebar_filters
    \/ run_filter_data
    \/ render_sidebar_data_info
    \/ render_kpi_section
    \/ render_department_section
    \/ render_complaint_patterns
    \/ render_sentiment_section
    \/ render_insights_section

SpecRun == InitRun /\ [][NextRun]_vars

(***************************************************************************)
(* Properties.  A property about a call reads the call record: the table   *)
(* the call worked on and what it returned.                                *)
(***************************************************************************)
\* the rows of the table the last calculator call worked on (none: no rows)
InputRows == IF IsNone(call.complaints_df) THEN <<>> ELSE call.complaints_df.rows

\* the indices of the input rows that are Resolved
ResolvedIndices == {i \in DOMAIN InputRows : InputRows[i].status = "Resolved"}

\* the indices of the input rows of a department
DepartmentIndices(d) == {i \in DOMAIN InputRows : InputRows[i].department = d}

RECURSIVE SumOver(_, _)
\* the sum of column col over the input rows with index in I
SumOver(I, col) ==
    IF I = {} THEN 0
    ELSE LET i == CHOOSE x \in I : TRUE
         IN  InputRows[i][col] + SumOver(I \ {i}, col)

Abs(x) == IF x < 0 THEN -x ELSE x

\* v is an integer nearest to num/den
IsNearest(v, num, den) == 2 * Abs(v * den - num) <= den

RECURSIVE Gcd(_, _)
Gcd(a, b) == IF b = 0 THEN a ELSE Gcd(b, a % b)

\* the fractions n1/d1 and n2/d2 are equal (n >= 0, d > 0)
SameFraction(n1, d1, n2, d2) ==
    /\ n1 \div Gcd(n1, d1) = n2 \div Gcd(n2, d2)
    /\ d1 \div Gcd(n1, d1) = d2 \div Gcd(n2, d2)

\* the subset of the spec's example: {A: sat 5, Resolved, 10 days} and
\* {B: sat 1, Pending, 20 days}
ExampleRows ==
    <<[complaint_id |-> 1, department |-> 1, district |-> 1, status |-> "Resolved",
       satisfaction_score |-> 5, resolution_time_days |-> 10, complaint_date |-> 1,
       complaint_category |-> 1],
      [complaint_id |-> 2, department |-> 2, district |-> 1, status |-> "Pending",
       satisfaction_score |-> 1, resolution_time_days |-> 20, complaint_date |-> 1,
       complaint_category |-> 1]>>

IsKpiCall == call.op = "get_kpi_metrics"
IsDeptCall == call.op = "analyze_department_performance"
IsRegionalCall == call.op = "analyze_regional_performance"

\* C1 as stated: resolution_rate is in [0,100], is exactly
\* 100 * resolved / total on a non-empty subset, and is 0 on an empty or
\* absent one.  (Rates are in tenths.)
C1_ExactRate ==
    IsKpiCall =>
        /\ call.result.resolution_rate \in 0..1000
        /\ Len(InputRows) > 0 =>
              call.result.resolution_rate * Len(InputRows)
                  = 1000 * Cardinality(ResolvedIndices)
        /\ Len(InputRows) = 0 => call.result.resolution_rate = 0

\* C1 amended: resolution_rate is in [0,100], is 100 * resolved / total
\* rounded to one decimal place on a non-empty subset, and is 0 on an empty or
\* absent one.
C1_RoundedRate ==
    IsKpiCall =>
        /\ call.result.resolution_rate \in 0..1000
        /\ Len(InputRows) > 0 =>
              IsNearest(call.result.resolution_rate,
                        1000 * Cardinality(ResolvedIndices), Len(InputRows))
        /\ Len(InputRows) = 0 => call.result.resolution_rate = 0

\* C1 witness: one of three records is Resolved and the rate is 33.3
C1_Witness ==
    /\ IsKpiCall
    /\ Len(InputRows) = 3
    /\ Cardinality(ResolvedIndices) = 1
    /\ call.result.resolution_rate = 333

\* the KPIs of the example: total 2, resolved 1, rate 50.0, satisfaction 3.0,
\* resolution time 10.0
ExampleKpis ==
    [total_complaints |-> 2, resolved_complaints |-> 1, resolution_rate |-> 500,
     avg_satisfaction |-> 30, avg_resolution_time |-> 100]

\* C2 as stated: avg_resolution_time is exactly the mean of
\* resolution_time_days over the Resolved records, 0 when there is none, and
\* the example has the KPIs the spec gives.  (Means are in tenths.)
C2_ExactResolvedMean ==
    IsKpiCall =>
        /\ ResolvedIndices # {} =>
              call.result.avg_resolution_time * Cardinality(ResolvedIndices)
                  = 10 * SumOver(ResolvedIndices, "resolution_time_days")
        /\ ResolvedIndices = {} => call.result.avg_resolution_time = 0
        /\ InputRows = ExampleRows => call.result = ExampleKpis

\* C2 amended: avg_resolution_time is the mean of resolution_time_days over
\* the Resolved records only, rounded to one decimal place, and 0 when there
\* is none; the example has the KPIs the spec gives.
C2_RoundedResolvedMean ==
    IsKpiCall =>
        /\ ResolvedIndices # {} =>
              IsNearest(call.result.avg_resolution_time,
                        10 * SumOver(ResolvedIndices, "resolution_time_days"),
                        Cardinality(ResolvedIndices))
        /\ ResolvedIndices = {} => call.result.avg_resolution_time = 0
        /\ InputRows = ExampleRows => call.result = ExampleKpis

\* C2 witness: the example, whose Pending record carries 20 days
C2_Witness ==
    /\ IsKpiCall
    /\ InputRows = ExampleRows
    /\ call.result.avg_resolution_time = 100

\* the largest avg_resolution_time of the returned department table
ResultMax ==
    CHOOSE m \in {call.result[i].avg_resolution_time : i \in DOMAIN call.result} :
        \A i \in DOMAIN call.result : call.result[i].avg_resolution_time <= m

\* C3: every group's efficiency_score is
\* 0.6 * (avg_satisfaction / 5) + 0.4 * (1 - avg_resolution_time / M), M the
\* largest avg_resolution_time of the result, and avg_satisfaction / 5 when M
\* is 0.  (Means are in hundredths: 0.6 * (S/500) + 0.4 * (M - R)/M is
\* (6*S*M + 2000*(M - R)) / (5000*M).)
C3_EfficiencyFormula ==
    IsDeptCall =>
        \A i \in DOMAIN call.result :
            LET row == call.result[i]
                S == row.avg_satisfaction
                R == row.avg_resolution_time
                M == ResultMax
            IN  IF M > 0
                THEN SameFraction(row.efficiency_score.num, row.efficiency_score.den,
                                  6 * S * M + 2000 * (M - R), 5000 * M)
                ELSE SameFraction(row.efficiency_score.num, row.efficiency_score.den,
                                  S, 500)

\* C3 witness: two groups, the maximum is positive and one group is faster
\* than the slowest without being instantaneous
C3_Witness ==
    /\ IsDeptCall
    /\ Len(call.result) = 2
    /\ \E i \in DOMAIN call.result :
          /\ call.result[i].avg_resolution_time > 0
          /\ call.result[i].avg_resolution_time < ResultMax

\* the departments of the input rows
InputDepartments == {InputRows[i].department : i \in DOMAIN InputRows}

\* C4: on a non-empty subset with K department groups the rank column is a
\* permutation of 1..K, rank 1 is held by a group of maximum efficiency score,
\* and the score does not increase as the rank increases.
C4_RankPermutation ==
    (IsDeptCall /\ Len(InputRows) > 0) =>
        LET K == Cardinality(InputDepartments)
            res == call.result
        IN  /\ Len(res) = K
            /\ {res[i].rank : i \in DOMAIN res} = 1..K
            /\ \A i \in DOMAIN res :
                  res[i].rank = 1 =>
                      \A j \in DOMAIN res :
                          ScoreGeq(res[i].efficiency_score, res[j].efficiency_score)
            /\ \A i, j \in DOMAIN res :
                  res[i].rank < res[j].rank =>
                      ScoreGeq(res[i].efficiency_score, res[j].efficiency_score)

\* C4 witness: two groups with different scores
C4_Witness ==
    /\ IsDeptCall
    /\ Len(call.result) = 2
    /\ ~ScoreEq(call.result[1].efficiency_score, call.result[2].efficiency_score)

\* C5: a row is Excellent exactly when its score is above 0.8, Good exactly
\* when it is above 0.6 and at most 0.8, and Needs Improvement otherwise; so
\* exactly 0.8 is Good and exactly 0.6 is Needs Improvement.
C5_CategoryThresholds ==
    IsDeptCall =>
        \A i \in DOMAIN call.result :
            LET x == call.result[i].efficiency_score
                c == call.result[i].performance_category
            IN  /\ c \in {"Excellent", "Good", "Needs Improvement"}
                /\ c = "Excellent" <=> 5 * x.num > 4 * x.den
                /\ c = "Good" <=> (5 * x.num > 3 * x.den /\ 5 * x.num <= 4 * x.den)
                /\ c = "Needs Improvement" <=> 5 * x.num <= 3 * x.den

\* C5 witness: a row scoring exactly 0.8 is Good and a row scoring exactly 0.6
\* is Needs Improvement
C5_Witness ==
    /\ IsDeptCall
    /\ \E i \in DOMAIN call.result :
          /\ 5 * call.result[i].efficiency_score.num
                = 4 * call.result[i].efficiency_score.den
          /\ call.result[i].performance_category = "Good"
    /\ \E i \in DOMAIN call.result :
          /\ 5 * call.result[i].efficiency_score.num
                = 3 * call.result[i].efficiency_score.den
          /\ call.result[i].performance_category = "Needs Improvement"

\* C6: with satisfaction scores in 1..5 and resolution times >= 0, every
\* efficiency_score is in [0,1], and in [0.2,1] when the largest group
\* resolution time is 0 (the satisfaction-only branch).
C6_ScoreBounds ==
    (/\ IsDeptCall
     /\ \A i \in DOMAIN InputRows :
           /\ InputRows[i].satisfaction_score \in 1..5
           /\ InputRows[i].resolution_time_days >= 0) =>
        \A i \in DOMAIN call.result :
            LET x == call.result[i].efficiency_score
            IN  /\ x.den > 0
                /\ 0 <= x.num
                /\ x.num <= x.den
                /\ ResultMax = 0 => 5 * x.num >= x.den

\* C6 witness: the satisfaction-only branch, with a group at the lower end 0.2
C6_Witness ==
    /\ IsDeptCall
    /\ Len(call.result) > 0
    /\ ResultMax = 0
    /\ \E i \in DOMAIN call.result :
          5 * call.result[i].efficiency_score.num = call.result[i].efficiency_score.den

\* C7: the total_complaints of the groups of the department analysis, and of
\* the regional analysis, sum to the number of records of the subset.
C7_GroupCountsSum ==
    (IsDeptCall \/ IsRegionalCall) =>
        SumColumn(call.result, "total_complaints") = Len(InputRows)

\* C7 witness: three records in two department groups
C7_Witness ==
    /\ IsDeptCall
    /\ Len(InputRows) = 3
    /\ Len(call.result) = 2

\* the row of department d in the returned department table
ResultRowOf(d) ==
    call.result[CHOOSE i \in DOMAIN call.result : call.result[i].department = d]

\* the department analysis of the example: the maximum is 20, A scores 0.8, is
\* Good and has rank 1; B scores 0.12, is Needs Improvement and has rank 2
ExampleAnalysis ==
    /\ Len(call.result) = 2
    /\ ResultMax = 2000
    /\ ResultRowOf(1).avg_resolution_time = 1000
    /\ ResultRowOf(2).avg_resolution_time = 2000
    /\ SameFraction(ResultRowOf(1).efficiency_score.num,
                    ResultRowOf(1).efficiency_score.den, 80, 100)
    /\ ResultRowOf(1).performance_category = "Good"
    /\ ResultRowOf(1).rank = 1
    /\ SameFraction(ResultRowOf(2).efficiency_score.num,
                    ResultRowOf(2).efficiency_score.den, 12, 100)
    /\ ResultRowOf(2).performance_category = "Needs Improvement"
    /\ ResultRowOf(2).rank = 2

\* C8 as stated: a group's avg_resolution_time is exactly the mean of
\* resolution_time_days over all records of the group, whatever their status,
\* and the example has the analysis the spec gives.  (Means are in hundredths.)
C8_ExactGroupMean ==
    IsDeptCall =>
        /\ \A i \in DOMAIN call.result :
              LET I == DepartmentIndices(call.result[i].department)
              IN  call.result[i].avg_resolution_time * Cardinality(I)
                      = 100 * SumOver(I, "resolution_time_days")
        /\ InputRows = ExampleRows => ExampleAnalysis

\* C8 amended: a group's avg_resolution_time is the mean of
\* resolution_time_days over all records of the group, whatever their status,
\* rounded to two decimal places; the example has the analysis the spec gives.
C8_RoundedGroupMean ==
    IsDeptCall =>
        /\ \A i \in DOMAIN call.result :
              LET I == DepartmentIndices(call.result[i].department)
              IN  IsNearest(call.result[i].avg_resolution_time,
                            100 * SumOver(I, "resolution_time_days"),
                            Cardinality(I))
        /\ InputRows = ExampleRows => ExampleAnalysis

\* C8 witness: the example, whose group B holds only a Pending record
C8_Witness ==
    /\ IsDeptCall
    /\ InputRows = ExampleRows
    /\ ResultRowOf(2).avg_resolution_time = 2000

\* C9: the groups are in descending order of efficiency score, and groups
\* with equal scores keep the order groupby produced them in (ascending
\* department), which then decides their ranks.
C9_StableDescending ==
    IsDeptCall =>
        \A i, j \in DOMAIN call.result :
            i < j =>
                /\ ScoreGeq(call.result[i].efficiency_score,
                            call.result[j].efficiency_score)
                /\ ScoreEq(call.result[i].efficiency_score,
                           call.result[j].efficiency_score)
                      => call.result[i].department < call.result[j].department

\* a selection argument that selects nothing: None or an empty list
IsEmptySelection(selection) == IsNone(selection) \/ selection.items = {}

\* a filter_data call on a loaded store
IsLoadedFilterCall == call.op = "filter_data" /\ is_data_loaded

\* row r passes the district selection and the date range of the last call
PassesDistrictAndDate(r, date_col) ==
    /\ IsEmptySelection(call.districts) \/ r.district \in call.districts.items
    /\ IsNone(call.date_range)
          \/ (call.date_range.start <= r[date_col] /\ r[date_col] <= call.date_range.end)

\* row r passes the department selection and the date range of the last call
PassesDepartmentAndDate(r, date_col) ==
    /\ IsEmptySelection(call.departments) \/ r.department \in call.departments.items
    /\ IsNone(call.date_range)
          \/ (call.date_range.start <= r[date_col] /\ r[date_col] <= call.date_range.end)

\* C10: on a loaded store an empty or None department selection filters
\* nothing on departments (the subsets are the base rows that pass the other
\* criteria), likewise for districts, and with both selections empty and no
\* date range the subsets are exactly the rows of the base tables.
C10_EmptySelectionPassThrough ==
    IsLoadedFilterCall =>
        /\ IsEmptySelection(call.departments) =>
              /\ call.result[1].rows
                    = SelectSeq(complaints_df.rows,
                                LAMBDA r : PassesDistrictAndDate(r, "complaint_date"))
              /\ call.result[2].rows
                    = SelectSeq(sentiment_df.rows,
                                LAMBDA r : PassesDistrictAndDate(r, "post_date"))
        /\ IsEmptySelection(call.districts) =>
              /\ call.result[1].rows
                    = SelectSeq(complaints_df.rows,
                                LAMBDA r : PassesDepartmentAndDate(r, "complaint_date"))
              /\ call.result[2].rows
                    = SelectSeq(sentiment_df.rows,
                                LAMBDA r : PassesDepartmentAndDate(r, "post_date"))
        /\ (/\ IsEmptySelection(call.departments)
            /\ IsEmptySelection(call.districts)
            /\ IsNone(call.date_range)) =>
              /\ call.result[1].rows = complaints_df.rows
              /\ call.result[2].rows = sentiment_df.rows

\* C10 witness: an empty department list, no district selection and no date
\* range on a store with complaints and posts, all of them returned
C10_Witness ==
    /\ IsLoadedFilterCall
    /\ call.departments = List({})
    /\ IsNone(call.districts)
    /\ IsNone(call.date_range)
    /\ Len(complaints_df.rows) > 0
    /\ Len(sentiment_df.rows) > 0
    /\ call.result[1].rows = complaints_df.rows
    /\ call.result[2].rows = sentiment_df.rows

\* the last filter_data call on a loaded store was given the two lists that
\* get_unique_values returns for the store, and no date range
IsFullSelection ==
    /\ IsLoadedFilterCall
    /\ call.departments = unique_values(complaints_df, "department")
    /\ call.districts = unique_values(complaints_df, "district")
    /\ IsNone(call.date_range)

\* C11: filter_data with the full lists of get_unique_values and no date
\* range returns all rows of the complaint table and of the sentiment table.
C11_FullSelectionRoundTrip ==
    IsFullSelection =>
        /\ call.result[1].rows = complaints_df.rows
        /\ call.result[2].rows = sentiment_df.rows

\* row r satisfies every active criterion of the last filter_data call
PassesAll(r, date_col) ==
    /\ IsEmptySelection(call.departments) \/ r.department \in call.departments.items
    /\ IsEmptySelection(call.districts) \/ r.district \in call.districts.items
    /\ IsNone(call.date_range)
          \/ (call.date_range.start <= r[date_col] /\ r[date_col] <= call.date_range.end)

\* C12: on a loaded store filter_data returns exactly the base rows, in base
\* order, that satisfy every active criterion at once: department in the
\* non-empty department selection, district in the non-empty district
\* selection, and start <= complaint_date <= end (complaints) or
\* start <= post_date <= end (posts) when a date range is given.
C12_ExactlyMatchingRows ==
    IsLoadedFilterCall =>
        /\ call.result[1].rows
              = SelectSeq(complaints_df.rows, LAMBDA r : PassesAll(r, "complaint_date"))
        /\ call.result[2].rows
              = SelectSeq(sentiment_df.rows, LAMBDA r : PassesAll(r, "post_date"))

\* C12 witness: both selections are non-empty, the date range starts and
\* ends on the date of the complaint and of the post, and both are returned
C12_Witness ==
    /\ IsLoadedFilterCall
    /\ ~IsEmptySelection(call.departments)
    /\ ~IsEmptySelection(call.districts)
    /\ ~IsNone(call.date_range)
    /\ Len(call.result[1].rows) > 0
    /\ Len(call.result[2].rows) > 0
    /\ call.date_range.start = call.result[1].rows[1].complaint_date
    /\ call.date_range.end = call.result[1].rows[1].complaint_date
    /\ call.date_range.end = call.result[2].rows[1].post_date

\* the four base tables
base_tables == <<complaints_df, employee_df, sentiment_df, department_df>>

\* the last call was a load_data that returned success
LastLoadSucceeded == call.op = "load_data" /\ call.result[1]

\* C13: a filter_data call made after any sequence of load_data calls returns
\* (None, None) when no load was made or the most recent load returned
\* failure, and two tables when the most recent load returned success.
C13_FilterFollowsLastLoad ==
    [][(call.op # "filter_data" /\ call'.op = "filter_data") =>
          IF LastLoadSucceeded
          THEN /\ call'.result[1].kind = "DataFrame"
               /\ call'.result[2].kind = "DataFrame"
          ELSE call'.result = <<None, None>>]_vars

\* C13 witness: filter_data returned (None, None) on a store whose four
\* tables are all present, after a load that failed
C13_Witness ==
    /\ call.op = "filter_data"
    /\ call.result = <<None, None>>
    /\ ~is_data_loaded
    /\ \A i \in 1..4 : base_tables[i].kind = "DataFrame"

\* C14: once load_data has returned success, no call other than load_data
\* (filter_data, the six calculators, get_unique_values, get_data_summary)
\* changes any of the four base tables.
C14_BaseTablesReadOnly ==
    [][(is_data_loaded /\ call'.op # "load_data") => UNCHANGED base_tables]_vars

\* C14 witness: analyze_complaint_patterns has worked on the loaded complaint
\* table itself (the caller passed nothing) and returned its month trends
C14_Witness ==
    /\ is_data_loaded
    /\ call.op = "analyze_complaint_patterns"
    /\ "result" \in DOMAIN call
    /\ filtered_complaints = Unset
    /\ call.complaints_df = complaints_df
    /\ Len(call.result[3]) > 0

\* the last call was a load_data that returned failure
LastLoadFailed == call.op = "load_data" /\ ~call.result[1]

\* C15: when a first load_data fails at any step it returns (False, message),
\* the store is unloaded and none of the four tables holds data; a
\* get_kpi_metrics call made without a subset on the unloaded store then
\* returns the all-zero metrics.
C15_NoPartialDataset ==
    /\ LastLoadFailed =>
          /\ ~is_data_loaded
          /\ \A i \in 1..4 : IsNone(base_tables[i]) \/ Length(base_tables[i]) = 0
    /\ (/\ ~is_data_loaded
        /\ call.op = "get_kpi_metrics"
        /\ filtered_complaints = Unset) =>
          call.result.total_complaints = 0

\* C16: on a loaded store, a load_data call that succeeds leaves four tables
\* in place, and a load_data call in which any step fails changes none of the
\* four tables.
C16_AllOrNothingReload ==
    [][(is_data_loaded /\ call'.op = "load_data") =>
          IF call'.result[1]
          THEN \A i \in 1..4 : base_tables[i]'.kind = "DataFrame"
          ELSE UNCHANGED base_tables]_vars

IsPatternsCall == call.op = "analyze_complaint_patterns"
IsSentimentCall == call.op = "analyze_sentiment_data"
IsInsightsCall == call.op = "generate_insights_and_recommendations"

\* the last call was one of the six calculators
IsCalculatorCall ==
    IsKpiCall \/ IsDeptCall \/ IsRegionalCall \/ IsPatternsCall \/ IsSentimentCall
    \/ IsInsightsCall

\* the table the last calculator call worked on
CallInput == IF IsSentimentCall THEN call.sentiment_df ELSE call.complaints_df

\* the last calculator call was given no data: no table, or a table without rows
EmptyInput == IsCalculatorCall /\ (IsNone(CallInput) \/ Length(CallInput) = 0)

\* the last call returned (it did not raise)
HasReturned == "result" \in DOMAIN call

\* C17: a calculator given an empty dataset does not raise and returns its
\* empty value: all-zero metrics, an empty table, (empty mapping, empty
\* mapping, empty table), (empty mapping, empty table), and insights whose
\* three lists are empty.
C17_EmptyInputEmptyResult ==
    EmptyInput =>
        /\ HasReturned
        /\ IsKpiCall =>
              call.result = [total_complaints |-> 0, resolved_complaints |-> 0,
                             resolution_rate |-> 0, avg_satisfaction |-> 0,
                             avg_resolution_time |-> 0]
        /\ (IsDeptCall \/ IsRegionalCall) => Len(call.result) = 0
        /\ IsPatternsCall =>
              /\ DOMAIN call.result[1] = {}
              /\ DOMAIN call.result[2] = {}
              /\ Len(call.result[3]) = 0
        /\ IsSentimentCall =>
              /\ DOMAIN call.result[1] = {}
              /\ Len(call.result[2]) = 0
        /\ IsInsightsCall =>
              /\ Len(call.result.key_findings) = 0
              /\ Len(call.result.recommendations) = 0
              /\ Len(call.result.action_items) = 0

\* C17 witness: generate_insights_and_recommendations was given a table
\* without rows and returned
C17_Witness ==
    /\ IsInsightsCall
    /\ ~IsNone(call.complaints_df)
    /\ Length(call.complaints_df) = 0
    /\ HasReturned

\* the last calculator call was given a table with rows that lacks column col
InputLacks(col) ==
    /\ IsCalculatorCall
    /\ ~EmptyInput
    /\ col \notin Columns(CallInput)

\* the finding or action item r is built from the text t
IsFinding(r, t) == r.finding = t
IsAction(r, t) == r.action = t

\* the category outputs of the last call are empty or omitted
NoCategoryOutput ==
    /\ IsPatternsCall => DOMAIN call.result[1] = {}
    /\ IsInsightsCall =>
          /\ \A i \in DOMAIN call.result.key_findings :
                ~IsFinding(call.result.key_findings[i], "Most common complaint: {}")
          /\ \A i \in DOMAIN call.result.action_items :
                ~IsAction(call.result.action_items[i], "Implement solutions for {} issues")

\* C18: a calculator given a non-empty subset that lacks a column it reads
\* does not raise; without the complaint_category column the category
\* distribution is empty and the most-common-complaint finding and the
\* modal-category action item are omitted.
C18_MissingColumnDegrades ==
    /\ (IsCalculatorCall /\ ~EmptyInput) => HasReturned
    /\ InputLacks("complaint_category") => NoCategoryOutput

\* C19 as stated: every call of generate_insights_and_recommendations
\* returns the same list of six recommendations.
C19_SixRecommendationsAlways ==
    (IsInsightsCall /\ HasReturned) =>
        /\ Len(call.result.recommendations) = 6
        /\ call.result.recommendations = Recommendations

\* C19: for every non-empty subset, and whatever department analysis is
\* passed in, the recommendations are the same list of six suggestions; for
\* an absent or empty subset the list of recommendations is empty.
C19_SixRecommendationsUnlessEmpty ==
    (IsInsightsCall /\ HasReturned) =>
        IF EmptyInput
        THEN Len(call.result.recommendations) = 0
        ELSE /\ Len(call.result.recommendations) = 6
             /\ call.result.recommendations = Recommendations

\* C19 witness: the six recommendations were returned for a subset of two
\* departments together with an analysis without rows, which the caller
\* passed in
C19_Witness ==
    /\ IsInsightsCall
    /\ HasReturned
    /\ ~EmptyInput
    /\ Cardinality({call.complaints_df.rows[i].department
                       : i \in DOMAIN call.complaints_df.rows}) = 2
    /\ Len(call.dept_analysis) = 0
    /\ Len(call.result.recommendations) = 6

\* the categories named by the most-common-complaint finding and by the
\* modal-category action item of the last call
ReportedCategories ==
    {call.result.key_findings[i].value :
        i \in {j \in DOMAIN call.result.key_findings :
                  IsFinding(call.result.key_findings[j], "Most common complaint: {}")}}
    \cup
    {call.result.action_items[i].value :
        i \in {j \in DOMAIN call.result.action_items :
                  IsAction(call.result.action_items[j], "Implement solutions for {} issues")}}

\* the number of input records of category c, and the position of the first
CategoryCount(c) ==
    Cardinality({i \in DOMAIN CallInput.rows : CallInput.rows[i].complaint_category = c})
FirstRecordOf(c) ==
    SetMin({i \in DOMAIN CallInput.rows : CallInput.rows[i].complaint_category = c})

\* the categories of the input records
InputCategories ==
    {CallInput.rows[i].complaint_category : i \in DOMAIN CallInput.rows}

\* C20: the category reported by the finding and by the action item has the
\* maximum record count of the subset, and among the categories with that
\* count it is the one whose first record comes first.
C20_ModeFirstEncountered ==
    (IsInsightsCall /\ HasReturned /\ ~EmptyInput
        /\ "complaint_category" \in Columns(CallInput)) =>
        \A c \in ReportedCategories :
            \A d \in InputCategories :
                /\ CategoryCount(d) <= CategoryCount(c)
                /\ CategoryCount(d) = CategoryCount(c) =>
                      FirstRecordOf(c) <= FirstRecordOf(d)

\* the last insights call had a department analysis with rows
AnalysisAvailable == Len(call.dept_analysis) > 0

\* the last insights call had a subset with rows and a category column
CategoryAvailable == ~EmptyInput /\ "complaint_category" \in Columns(CallInput)

\* the number of data-dependent action items expected of the last call
ExpectedLeading ==
    (IF AnalysisAvailable THEN 1 ELSE 0) + (IF CategoryAvailable THEN 1 ELSE 0)

\* c is a category with the maximum record count of the input
IsModalCategory(c) ==
    /\ c \in InputCategories
    /\ \A d \in InputCategories : CategoryCount(d) <= CategoryCount(c)

\* the action items end with the two fixed items, preceded without gaps by
\* the worst-department item iff the analysis has rows, then the
\* modal-category item iff the category is available
ActionItemsInOrder ==
    LET items == call.result.action_items
        k == ExpectedLeading
    IN  /\ Len(items) = k + 2
        /\ items[k + 1].priority = "Medium"
        /\ IsAction(items[k + 1], "Launch comprehensive staff training program")
        /\ items[k + 2].priority = "Low"
        /\ IsAction(items[k + 2], "Expand digital service offerings")
        /\ AnalysisAvailable =>
              /\ items[1].priority = "High"
              /\ IsAction(items[1], "Address performance issues in {}")
              /\ items[1].value
                    = call.dept_analysis[Len(call.dept_analysis)].department
        /\ CategoryAvailable =>
              /\ items[k].priority = "Medium"
              /\ IsAction(items[k], "Implement solutions for {} issues")
              /\ IsModalCategory(items[k].value)

\* C21 as stated: the action items of every call are in that order and
\* always end with the two fixed items.
C21_ActionItemsAlways ==
    (IsInsightsCall /\ HasReturned) => ActionItemsInOrder

\* C21: for a non-empty subset the action items end with the two fixed
\* items (Medium training program, Low digital expansion), preceded in this
\* order and without gaps by a High item naming the last-row department iff
\* the department analysis has rows, then a Medium item naming the modal
\* category iff the category is available; for an absent or empty subset
\* there are no action items.
C21_ActionItemsUnlessEmpty ==
    (IsInsightsCall /\ HasReturned) =>
        IF EmptyInput
        THEN Len(call.result.action_items) = 0
        ELSE ActionItemsInOrder

\* C21 witness: four action items for a subset of two departments with a
\* category column
C21_Witness ==
    /\ IsInsightsCall
    /\ HasReturned
    /\ CategoryAvailable
    /\ Len(call.dept_analysis) = 2
    /\ Len(call.result.action_items) = 4

\* the texts of the four metric findings, in their order
MetricFindings ==
    <<"Total of {} complaints processed",
      "Average citizen satisfaction: {}/5",
      "Resolution rate: {}%",
      "Average resolution time: {} days">>

\* C22: the key findings are, in this order, the four metric findings (total
\* complaints, average satisfaction, resolution rate, average resolution
\* time), the most-common-complaint finding, the best department (first row,
\* rank 1) and the department needing attention (last row, last rank); the
\* category finding is there iff the category is available, the two
\* department findings iff the department analysis has rows, the metric
\* findings iff the subset has rows, and an omitted finding leaves the order
\* of the others as it is.
C22_KeyFindingsInOrder ==
    (IsInsightsCall /\ HasReturned) =>
        LET f == call.result.key_findings
            m == IF EmptyInput THEN 0 ELSE Len(MetricFindings)
            c == IF CategoryAvailable THEN 1 ELSE 0
            d == IF AnalysisAvailable /\ ~EmptyInput THEN 2 ELSE 0
            n == Len(call.dept_analysis)
        IN  /\ Len(f) = m + c + d
            /\ \A i \in 1..m : IsFinding(f[i], MetricFindings[i])
            /\ m > 0 =>
                  /\ f[1].value = Length(CallInput)
                  /\ f[2].value = kpi_avg_satisfaction(CallInput.rows)
                  /\ f[3].value = resolution_rate(CallInput.rows)
                  /\ f[4].value = kpi_avg_resolution_time(CallInput.rows)
            /\ c > 0 =>
                  /\ IsFinding(f[m + 1], "Most common complaint: {}")
                  /\ IsModalCategory(f[m + 1].value)
            /\ d > 0 =>
                  /\ IsFinding(f[m + c + 1], "Best performing department: {}")
                  /\ f[m + c + 1].value = call.dept_analysis[1].department
                  /\ call.dept_analysis[1].rank = 1
                  /\ IsFinding(f[m + c + 2], "Department needing attention: {}")
                  /\ f[m + c + 2].value = call.dept_analysis[n].department
                  /\ call.dept_analysis[n].rank = n

\* C22 witness: seven findings for a subset of two departments with a
\* category column, the best and the worst department being different
C22_Witness ==
    /\ IsInsightsCall
    /\ HasReturned
    /\ Len(call.result.key_findings) = 7
    /\ call.result.key_findings[6].value # call.result.key_findings[7].value

\* the rows of the returned department table whose avg_resolution_time is the
\* largest of the table
SlowestRows ==
    {i \in DOMAIN call.result : call.result[i].avg_resolution_time = ResultMax}

\* C24: in analyze_department_performance, when the largest group
\* avg_resolution_time is positive, a group attaining it has a speed component
\* of 0: its efficiency_score is 0.6 * avg_satisfaction / 5, at most 0.6, and
\* its performance_category is Needs Improvement whatever its satisfaction; so
\* is the only group of a single-department subset.  (Means are in hundredths:
\* 0.6 * S/500 is 3*S / 2500.)
C24_SlowestNeedsImprovement ==
    (/\ IsDeptCall
     /\ Len(call.result) > 0
     /\ ResultMax > 0) =>
        /\ \A i \in SlowestRows :
              LET row == call.result[i]
                  x == row.efficiency_score
              IN  /\ SameFraction(x.num, x.den, 3 * row.avg_satisfaction, 2500)
                  /\ 5 * x.num <= 3 * x.den
                  /\ row.performance_category = "Needs Improvement"
        /\ Len(call.result) = 1 =>
              call.result[1].performance_category = "Needs Improvement"

\* C24 witness: a single-department subset whose every record has the highest
\* satisfaction 5 and a positive resolution time; its group scores exactly 0.6
\* and is categorised Needs Improvement
C24_Witness ==
    /\ IsDeptCall
    /\ Len(InputRows) > 1
    /\ Len(call.result) = 1
    /\ ResultMax > 0
    /\ call.result[1].avg_satisfaction = 500
    /\ SameFraction(call.result[1].efficiency_score.num,
                    call.result[1].efficiency_score.den, 6, 10)
    /\ call.result[1].performance_category = "Needs Improvement"

\* a dashboard run is under way or over
InRun == dashboard.pc # "none"

\* load_data has returned failure to the run
LoadFailed == Len(dashboard.load) > 0 /\ ~dashboard.load[1]

\* C23: in a dashboard run load_data is the first engine method called, before
\* any filter or calculator call; and once it has returned failure the error
\* message has been shown exactly once and the run has halted: load_data is
\* the only engine method the run ever calls (no get_data_summary,
\* get_unique_values, filter_data or calculator), and the run stays stopped.
C23_LoadFirstAndHaltOnFailure ==
    InRun =>
        /\ \A i \in DOMAIN dashboard.calls :
              (dashboard.calls[i] = "load_data") <=> (i = 1)
        /\ dashboard.calls = <<>> =>
              dashboard.pc \in {"render_header", "render_data_loading_section"}
        /\ LoadFailed =>
              /\ dashboard.pc = "stopped"
              /\ dashboard.calls = <<"load_data">>
              /\ dashboard.errors = <<dashboard.load[2]>>
              /\ call.op = "load_data"
              /\ filtered_complaints = Unset
              /\ filtered_sentiment = Unset

\* C23 witness: a run whose load_data failed after reading some of the files:
\* it is stopped, has shown the one message and has called nothing else
C23_Witness ==
    /\ InRun
    /\ LoadFailed
    /\ ~IsNone(complaints_df)
    /\ dashboard.pc = "stopped"
    /\ dashboard.errors = <<"Error loading data">>
    /\ dashboard.calls = <<"load_data">>

====
